---- MODULE Spec2Model ----
(***************************************************************************)
(* Telegram text-to-speech bot: the dispatcher (main.py, TelegramTTSBot)   *)
(* and the speech client (voice.py, ElevenLabsTTS).                        *)
(*                                                                         *)
(* Updates are processed one at a time (the Application is built without   *)
(* concurrent_updates, main.py:293-298), and generate_speech is a blocking *)
(* call, so a handler runs to completion before the next update starts.    *)
(* The Telegram send/edit calls themselves are taken to succeed.           *)
(***************************************************************************)
EXTENDS Integers, Sequences, FiniteSets, TLC

VARIABLES
    user_data,   \* context.user_data of every user
    pc,          \* position of the dispatcher inside handle_text, or "idle"
    cur,         \* the update being handled (or the last one handled)
    posts,       \* requests.post calls made while handling cur
    reply,       \* what the user has been sent for cur so far
    resp,        \* the HTTP exchange (POST or GET) of the running handler
    result,      \* what generate_speech / is_valid_api_key made of resp
    files,       \* content of AUDIO_DIR, by file name (timestamp)
    clock        \* wall clock, in ticks

vars == <<user_data, pc, cur, posts, reply, resp, result, files, clock>>

----------------------------------------------------------------------------
(* Bounds *)

MaxClock == 2            \* the clock stops after this many ticks
TicksPerSecond == 2      \* clock resolution: ticks in one second

----------------------------------------------------------------------------
(* config.py *)

MAX_TEXT_LENGTH == 5000

VoiceKeys == {"bella", "rachel", "domi", "elli", "dorothy", "charlotte", "alice"}

AVAILABLE_VOICES ==
    [k \in VoiceKeys |->
        CASE k = "bella"     -> [id |-> "EXAVITQu4vr4xnSDxMaL", name |-> "Bella"]
          [] k = "rachel"    -> [id |-> "21m00Tcm4TlvDq8ikWAM", name |-> "Rachel"]
          [] k = "domi"      -> [id |-> "AZnzlk1XvdvUeBnXmlld", name |-> "Domi"]
          [] k = "elli"      -> [id |-> "MF3mGyEYCl7XYWbV9V6O", name |-> "Elli"]
          [] k = "dorothy"   -> [id |-> "ThT5KcBeYPX3keUQqHPh", name |-> "Dorothy"]
          [] k = "charlotte" -> [id |-> "XB0fDUnXU5powFXDhCwa", name |-> "Charlotte"]
          [] k = "alice"     -> [id |-> "Xb7hH8MSUJpSbSDYk0k2", name |-> "Alice"]]

DEFAULT_VOICE_ID == AVAILABLE_VOICES["bella"].id

VoiceIds == {AVAILABLE_VOICES[k].id : k \in VoiceKeys}

----------------------------------------------------------------------------
(* Inputs *)

Users == {"u1", "u2"}

Unset == "<unset>"

\* lengths of the texts users send, around the limit
TextLens == {1, MAX_TEXT_LENGTH, MAX_TEXT_LENGTH + 1}

\* callback_data of the pressed button, as a sequence of tokens; every one
\* matches the handler's pattern "^voice_"
CallbackData ==
    { <<"voice_", "rachel">>,
      <<"voice_", "voice_", "rachel">>,
      <<"voice_", "zz">>,
      <<"voice_">> }

\* strings of the provider's error payload, as sequences of tokens
Strings ==
    { <<"quota_exceeded">>,
      <<"detected_", "unusual_activity">>,
      <<"Free Tier", " usage disabled">> }

Absent == [t |-> "absent"]
JNull == [t |-> "null"]
JStr(s) == [t |-> "str", s |-> s]
JList == [t |-> "list"]
JObj(st, msg) == [t |-> "obj", status |-> st, message |-> msg]

FieldValues == {Absent, JNull} \cup {JStr(s) : s \in Strings}

Details ==
    {Absent, JNull, JList} \cup {JStr(s) : s \in Strings}
        \cup {JObj(st, msg) : st \in FieldValues, msg \in FieldValues}

\* body of an error response: not JSON, a JSON array, or a JSON object
NotJson == [t |-> "text"]
ErrorBodies ==
    {NotJson, [t |-> "arr"]} \cup {[t |-> "obj", detail |-> d] : d \in Details}

AudioBodies == { <<>>, <<73>>, <<255, 251>> }

Statuses == {101, 200, 304, 401, 403, 429, 500}

\* what requests.post / requests.get hands back: a response, or an exception
\* raised before any response exists
HttpResponse(s, content, json) ==
    [kind |-> "http", status |-> s, content |-> content, json |-> json]
NoResponse(k) ==
    [kind |-> k, status |-> 0, content |-> <<>>, json |-> NotJson]

NetworkFailures == {"connection_error", "timeout"}
OtherFailures == {"other_exception"}

\* outcome of open(filepath, "wb") / f.write(response.content)
DiskOutcomes == {"ok", "open_fails", "write_fails"}

----------------------------------------------------------------------------
(* voice.py: ElevenLabsTTS *)

\* requests' Response.raise_for_status: HTTPError for 4xx and 5xx only
raise_for_status(status_code) == 400 <= status_code /\ status_code < 600

\* str.lower, token by token
LowerToken(tok) ==
    CASE tok = "Free Tier" -> "free tier"
      [] OTHER             -> tok
Lower(s) == [i \in DOMAIN s |-> LowerToken(s[i])]

\* the "in" test of a marker against a string
Contains(marker, s) == \E i \in DOMAIN s : s[i] = marker

\* dict.get(key, '')
Get(v) == IF v.t = "absent" THEN JStr(<<>>) ELSE v

NoErr == [bucket |-> "none", variant |-> "none", code |-> 0, msg |-> Absent]
Err(bucket, variant, code, msg) ==
    [bucket |-> bucket, variant |-> variant, code |-> code, msg |-> msg]

Raised(exc) == [exc |-> exc, err |-> NoErr]
Message(err) == [exc |-> "none", err |-> err]

\* the status-code cascade of the JSON branch
ByStatusCode(status_code, api_message) ==
    IF status_code = 401 THEN Err("authorization", "long", 0, Absent)
    ELSE IF status_code = 403 THEN Err("forbidden", "long", 0, Absent)
    ELSE IF status_code = 429 THEN Err("rate_limit", "long", 0, Absent)
    ELSE Err("generic", "long", status_code, api_message)

\* ClassifyJson with the status-code cascade ahead of the marker test
ClassifyJson_StatusFirst(status_code, body) ==
    IF body.t = "text" THEN Raised("JSONDecodeError")
    ELSE IF body.t # "obj" THEN Raised("AttributeError")
    ELSE LET detail == IF body.detail.t = "absent" THEN JObj(Absent, Absent)
                       ELSE body.detail
         IN  IF detail.t = "obj"
             THEN LET api_message == Get(detail.message)
                      api_status == Get(detail.status)
                  IN  IF api_status.t # "str" THEN Raised("AttributeError")
                      ELSE IF api_message.t # "str" THEN Raised("AttributeError")
                      ELSE IF status_code \in {401, 403, 429}
                      THEN Message(ByStatusCode(status_code, api_message))
                      ELSE IF Contains("unusual_activity", Lower(api_status.s))
                              \/ Contains("free tier", Lower(api_message.s))
                      THEN Message(Err("account_restriction", "long", 0, Absent))
                      ELSE Message(ByStatusCode(status_code, api_message))
             ELSE Message(Err("detail_only", "long", 0, detail))

\* the inner try block: e.response.json() and the inspection of 'detail'
ClassifyJson(status_code, body) ==
    IF body.t = "text" THEN Raised("JSONDecodeError")
    ELSE IF body.t # "obj" THEN Raised("AttributeError")
    ELSE LET detail == IF body.detail.t = "absent" THEN JObj(Absent, Absent)
                       ELSE body.detail
         IN  IF detail.t = "obj"
             THEN LET api_message == Get(detail.message)
                      api_status == Get(detail.status)
                  IN  IF api_status.t # "str" THEN Raised("AttributeError")
                      ELSE IF Contains("unusual_activity", Lower(api_status.s))
                      THEN Message(Err("account_restriction", "long", 0, Absent))
                      ELSE IF api_message.t # "str" THEN Raised("AttributeError")
                      ELSE IF Contains("free tier", Lower(api_message.s))
                      THEN Message(Err("account_restriction", "long", 0, Absent))
                      ELSE Message(ByStatusCode(status_code, api_message))
             ELSE Message(Err("detail_only", "long", 0, detail))

\* ClassifyFallback without its 429 branch
ClassifyFallback_No429(status_code) ==
    IF status_code = 401 THEN Err("authorization", "short", 0, Absent)
    ELSE IF status_code = 403 THEN Err("forbidden", "short", 0, Absent)
    ELSE Err("generic", "short", status_code, Absent)

\* the inner except block: classification by status code alone
ClassifyFallback(status_code) ==
    IF status_code = 401 THEN Err("authorization", "short", 0, Absent)
    ELSE IF status_code = 403 THEN Err("forbidden", "short", 0, Absent)
    ELSE IF status_code = 429 THEN Err("rate_limit", "short", 0, Absent)
    ELSE Err("generic", "short", status_code, Absent)

\* HTTPErrorMessage whose inner except catches json.JSONDecodeError only, so
\* that an AttributeError leaves generate_speech as it is
HTTPErrorMessage_Uncaught(status_code, body) ==
    LET tried == ClassifyJson(status_code, body)
    IN  IF tried.exc = "JSONDecodeError" THEN ClassifyFallback(status_code)
        ELSE IF tried.exc = "none" THEN tried.err
        ELSE Err("raw", tried.exc, 0, Absent)

\* except requests.exceptions.HTTPError: the message of the raised Exception.
\* e.response.json() fails with a json.JSONDecodeError (requests on the
\* standard json module), which the inner except catches.
HTTPErrorMessage(status_code, body) ==
    LET tried == ClassifyJson(status_code, body)
    IN  IF tried.exc \in {"JSONDecodeError", "KeyError", "AttributeError"}
        THEN ClassifyFallback(status_code)
        ELSE tried.err

\* strftime("%Y%m%d_%H%M%S"): the clock at one-second resolution
Timestamp(now) == now \div TicksPerSecond

Timestamps == 0 .. (MaxClock \div TicksPerSecond)

NoFile == [exists |-> FALSE, content |-> <<>>]
File(bytes) == [exists |-> TRUE, content |-> bytes]

Returned(path, voice) ==
    [ret |-> "path", path |-> path, err |-> NoErr, voice |-> voice, valid |-> FALSE]
RaisedException(err, voice) ==
    [ret |-> "raise", path |-> -1, err |-> err, voice |-> voice, valid |-> FALSE]

\* WriteFile that loses the first byte of the body
WriteFile_DropsByte(fs, path, bytes, disk) ==
    CASE disk = "ok"          -> [fs EXCEPT ![path] =
                                     File(IF bytes = <<>> THEN <<>> ELSE Tail(bytes))]
      [] disk = "open_fails"  -> fs
      [] disk = "write_fails" -> [fs EXCEPT ![path] = File(<<>>)]

\* open(filepath, "wb") truncates or creates the file; f.write fills it
WriteFile(fs, path, bytes, disk) ==
    CASE disk = "ok"          -> [fs EXCEPT ![path] = File(bytes)]
      [] disk = "open_fails"  -> fs
      [] disk = "write_fails" -> [fs EXCEPT ![path] = File(<<>>)]

\* ElevenLabsTTS.generate_speech: what it returns or raises, and the
\* output directory afterwards
generate_speech(voice_id, r, disk, now, fs) ==
    IF r.kind \in NetworkFailures
    THEN [result |-> RaisedException(Err("network", "long", 0, Absent), voice_id),
          files |-> fs]
    ELSE IF r.kind \in OtherFailures
    THEN [result |-> RaisedException(Err("unexpected", r.kind, 0, Absent), voice_id),
          files |-> fs]
    ELSE IF raise_for_status(r.status)
    THEN [result |-> RaisedException(HTTPErrorMessage(r.status, r.json), voice_id),
          files |-> fs]
    ELSE LET filepath == Timestamp(now)
         IN  [result |-> IF disk = "ok" THEN Returned(filepath, voice_id)
                         ELSE RaisedException(Err("unexpected", disk, 0, Absent),
                                              voice_id),
              files |-> WriteFile(fs, filepath, r.content, disk)]

\* is_valid_api_key that takes every status but 401 for a valid key
is_valid_api_key_Not401(r) ==
    IF r.kind = "http"
    THEN IF r.status = 401 THEN FALSE ELSE TRUE
    ELSE FALSE

\* ElevenLabsTTS.is_valid_api_key
is_valid_api_key(r) ==
    IF r.kind = "http"
    THEN IF r.status = 200 THEN TRUE
         ELSE IF r.status = 401 THEN FALSE
         ELSE FALSE
    ELSE FALSE

----------------------------------------------------------------------------
(* main.py: TelegramTTSBot *)

PostResponses ==
    {HttpResponse(st, b, NotJson) :
        st \in {x \in Statuses : ~raise_for_status(x)}, b \in AudioBodies}
    \cup {HttpResponse(st, <<>>, j) :
        st \in {x \in Statuses : raise_for_status(x)}, j \in ErrorBodies}
    \cup {NoResponse(k) : k \in NetworkFailures \cup OtherFailures}

GetResponses ==
    {HttpResponse(st, <<>>, NotJson) : st \in Statuses}
    \cup {NoResponse(k) : k \in NetworkFailures \cup OtherFailures}

NoResp == NoResponse("none")
NoResult ==
    [ret |-> "none", path |-> -1, err |-> NoErr, voice |-> Unset, valid |-> FALSE]
Checked(valid, voice) ==
    [ret |-> "bool", path |-> -1, err |-> NoErr, voice |-> voice, valid |-> valid]

Update(kind, user, len, data) ==
    [kind |-> kind, user |-> user, len |-> len, data |-> data]
NoUpdate == Update("none", Unset, 0, <<>>)

Reply(kind, voice, file, bytes, err) ==
    [kind |-> kind, voice |-> voice, file |-> file, bytes |-> bytes, err |-> err]
Text(kind) == Reply(kind, Unset, -1, <<>>, NoErr)
NoReply == Text("none")

\* context.user_data.get("voice_id", DEFAULT_VOICE_ID)
CurrentVoiceId(ud) ==
    IF ud.voice_id = Unset THEN DEFAULT_VOICE_ID ELSE ud.voice_id

\* __init__ that builds the URL from the default voice whatever it is given
TTSVoice_IgnoresArgument(voice_id) == DEFAULT_VOICE_ID

\* ElevenLabsTTS.__init__: voice_id or DEFAULT_VOICE_ID
TTSVoice(voice_id) == IF voice_id = Unset THEN DEFAULT_VOICE_ID ELSE voice_id

\* get_tts_instance: the voice of the client built for this user
get_tts_instance(ud) == TTSVoice(CurrentVoiceId(ud))

\* the loop over AVAILABLE_VOICES.values() that finds the display name
VoiceName(voice_id) ==
    IF \E k \in VoiceKeys : AVAILABLE_VOICES[k].id = voice_id
    THEN AVAILABLE_VOICES[CHOOSE k \in VoiceKeys :
                              AVAILABLE_VOICES[k].id = voice_id].name
    ELSE "Unknown"

\* query.data.replace("voice_", "")
VoiceKeyOf(data) == SelectSeq(data, LAMBDA tok : tok # "voice_")

\* voice_key not in AVAILABLE_VOICES
InRegistry(voice_key) == Len(voice_key) = 1 /\ voice_key[1] \in VoiceKeys

\* a handler starts on a fresh update
Begin(u) ==
    /\ pc = "idle"
    /\ cur' = u
    /\ posts' = 0
    /\ resp' = NoResp
    /\ result' = NoResult

Init ==
    /\ user_data = [u \in Users |-> [user_id |-> Unset, voice_id |-> Unset]]
    /\ pc = "idle"
    /\ cur = NoUpdate
    /\ posts = 0
    /\ reply = NoReply
    /\ resp = NoResp
    /\ result = NoResult
    /\ files = [t \in Timestamps |-> NoFile]
    /\ clock = 0

\* start that keeps one session state for all users
start_AllUsers(u) ==
    /\ Begin(Update("start", u, 0, <<>>))
    /\ user_data' = [v \in Users |->
                        [user_id |-> u, voice_id |-> DEFAULT_VOICE_ID]]
    /\ reply' = Reply("welcome", VoiceName(DEFAULT_VOICE_ID), -1, <<>>, NoErr)
    /\ UNCHANGED <<pc, files, clock>>

\* /start
start(u) ==
    /\ Begin(Update("start", u, 0, <<>>))
    /\ user_data' = [user_data EXCEPT
                        ![u] = [user_id |-> u, voice_id |-> DEFAULT_VOICE_ID]]
    /\ reply' = Reply("welcome", VoiceName(DEFAULT_VOICE_ID), -1, <<>>, NoErr)
    /\ UNCHANGED <<pc, files, clock>>

\* /help
help_command(u) ==
    /\ Begin(Update("help", u, 0, <<>>))
    /\ reply' = Text("help")
    /\ UNCHANGED <<user_data, pc, files, clock>>

\* /voice
voice_selection(u) ==
    /\ Begin(Update("voice", u, 0, <<>>))
    /\ reply' = Reply("voice_menu", VoiceName(CurrentVoiceId(user_data[u])),
                      -1, <<>>, NoErr)
    /\ UNCHANGED <<user_data, pc, files, clock>>

\* SelectedVoice that stores the registry key in place of the provider id
SelectedVoice_StoresKey(ud, data) ==
    LET voice_key == VoiceKeyOf(data)
    IN  IF ~InRegistry(voice_key) THEN ud
        ELSE [ud EXCEPT !.voice_id = voice_key[1]]

\* SelectedVoice that falls back to the default voice on an unknown key
SelectedVoice_Defaulting(ud, data) ==
    LET voice_key == VoiceKeyOf(data)
    IN  IF ~InRegistry(voice_key) THEN [ud EXCEPT !.voice_id = DEFAULT_VOICE_ID]
        ELSE [ud EXCEPT !.voice_id = AVAILABLE_VOICES[voice_key[1]].id]

\* the user's voice after a button press with this callback data
SelectedVoice(ud, data) ==
    LET voice_key == VoiceKeyOf(data)
    IN  IF ~InRegistry(voice_key) THEN ud
        ELSE [ud EXCEPT !.voice_id = AVAILABLE_VOICES[voice_key[1]].id]

\* button press
voice_callback(u, data) ==
    /\ Begin(Update("callback", u, 0, data))
    /\ user_data' = [user_data EXCEPT ![u] = SelectedVoice(user_data[u], data)]
    /\ reply' = IF ~InRegistry(VoiceKeyOf(data)) THEN Text("voice_not_found")
                ELSE Reply("voice_changed",
                           AVAILABLE_VOICES[VoiceKeyOf(data)[1]].name,
                           -1, <<>>, NoErr)
    /\ UNCHANGED <<pc, files, clock>>

\* /status arrives
ReceiveStatus(u) ==
    /\ Begin(Update("status", u, 0, <<>>))
    /\ pc' = "status"
    /\ reply' = NoReply
    /\ UNCHANGED <<user_data, files, clock>>

\* status: tts.is_valid_api_key()
CheckKey ==
    /\ pc = "status"
    /\ resp = NoResp
    /\ \E r \in GetResponses :
          /\ resp' = r
          /\ result' = Checked(is_valid_api_key(r),
                               get_tts_instance(user_data[cur.user]))
    /\ UNCHANGED <<user_data, pc, cur, posts, reply, files, clock>>

\* status: the message built from is_valid, and its reply_text
status ==
    /\ pc = "status"
    /\ resp # NoResp
    /\ reply' = IF result.valid
                THEN Reply("status_ok",
                           VoiceName(CurrentVoiceId(user_data[cur.user])),
                           -1, <<>>, NoErr)
                ELSE Text("status_bad")
    /\ pc' = "idle"
    /\ resp' = NoResp
    /\ result' = NoResult
    /\ UNCHANGED <<user_data, cur, posts, files, clock>>

\* a text message reaches handle_text
ReceiveText(u, len) ==
    /\ Begin(Update("text", u, len, <<>>))
    /\ pc' = "check"
    /\ reply' = NoReply
    /\ UNCHANGED <<user_data, files, clock>>

\* TooLong with >= for >
TooLong_Inclusive(len) == len >= MAX_TEXT_LENGTH

\* len(user_text) > MAX_TEXT_LENGTH
TooLong(len) == len > MAX_TEXT_LENGTH

\* handle_text up to the try block: the length check, the progress message
CheckLength ==
    /\ pc = "check"
    /\ IF TooLong(cur.len)
       THEN pc' = "idle" /\ reply' = Text("too_long")
       ELSE pc' = "try" /\ reply' = Text("processing")
    /\ UNCHANGED <<user_data, cur, posts, resp, result, files, clock>>

\* AfterGenerate that calls generate_speech again after a failure
AfterGenerate_Retry(res) == IF res.ret = "path" THEN "send" ELSE "try"

\* where the try block goes after tts.generate_speech
AfterGenerate(res) == IF res.ret = "path" THEN "send" ELSE "except"

\* the try block: get_tts_instance and generate_speech
Synthesize ==
    /\ pc = "try"
    /\ \E r \in PostResponses, disk \in DiskOutcomes :
          /\ (disk # "ok" => r.kind = "http" /\ ~raise_for_status(r.status))
          /\ LET out == generate_speech(get_tts_instance(user_data[cur.user]),
                                        r, disk, clock, files)
             IN  /\ resp' = r
                 /\ result' = out.result
                 /\ files' = out.files
                 /\ posts' = posts + 1
                 /\ pc' = AfterGenerate(out.result)
    /\ UNCHANGED <<user_data, cur, reply, clock>>

\* the rest of the try block: caption, reply_voice, delete the progress message
SendVoice ==
    /\ pc = "send"
    /\ reply' = Reply("audio", VoiceName(CurrentVoiceId(user_data[cur.user])),
                      result.path, files[result.path].content, NoErr)
    /\ pc' = "idle"
    /\ resp' = NoResp
    /\ result' = NoResult
    /\ UNCHANGED <<user_data, cur, posts, files, clock>>

\* except Exception: the progress message becomes the error message
ReportError ==
    /\ pc = "except"
    /\ reply' = Reply("error", Unset, -1, <<>>, result.err)
    /\ pc' = "idle"
    /\ resp' = NoResp
    /\ result' = NoResult
    /\ UNCHANGED <<user_data, cur, posts, files, clock>>

\* time passes
Tick ==
    /\ clock < MaxClock
    /\ clock' = clock + 1
    /\ UNCHANGED <<user_data, pc, cur, posts, reply, resp, result, files>>

Handle ==
    \/ CheckKey
    \/ status
    \/ CheckLength
    \/ Synthesize
    \/ SendVoice
    \/ ReportError

Next ==
    \/ \E u \in Users : start(u)
    \/ \E u \in Users : help_command(u)
    \/ \E u \in Users : voice_selection(u)
    \/ \E u \in Users, data \in CallbackData : voice_callback(u, data)
    \/ \E u \in Users : ReceiveStatus(u)
    \/ \E u \in Users, len \in TextLens : ReceiveText(u, len)
    \/ Handle
    \/ Tick

Spec == Init /\ [][Next]_vars

\* a handler that has started runs to its end
FairSpec == Spec /\ WF_vars(Handle)

----------------------------------------------------------------------------
(* Properties *)

\* generate_speech has just returned (pc = "send") or raised (pc = "except")
Posted == pc \in {"send", "except"}

\* the exchange ended in an HTTP error response (4xx or 5xx)
HttpError == Posted /\ resp.kind = "http" /\ resp.status >= 400

\* the exchange ended in a 2xx response
Http2xx == Posted /\ resp.kind = "http" /\ resp.status >= 200 /\ resp.status < 300

\* a string that contains the marker, whatever its letter case
HasUnusualActivity(v) ==
    v.t = "str" /\ \E i \in DOMAIN v.s : v.s[i] = "unusual_activity"
HasFreeTier(v) ==
    v.t = "str" /\ \E i \in DOMAIN v.s : v.s[i] \in {"free tier", "Free Tier"}

\* either marker in either field of the detail object
MarkedAnywhere(j) ==
    /\ j.t = "obj"
    /\ j.detail.t = "obj"
    /\ \E v \in {j.detail.status, j.detail.message} :
          HasUnusualActivity(v) \/ HasFreeTier(v)

\* the marker where the client looks for it: "unusual_activity" in a string
\* status, or "free tier" in a string message beside a string or absent status
MarkedInPlace(j) ==
    /\ j.t = "obj"
    /\ j.detail.t = "obj"
    /\ \/ HasUnusualActivity(j.detail.status)
       \/ /\ j.detail.status.t \in {"str", "absent"}
          /\ HasFreeTier(j.detail.message)

\* the bucket the status code alone selects
BucketOf(status_code) ==
    CASE status_code = 401 -> "authorization"
      [] status_code = 403 -> "forbidden"
      [] status_code = 429 -> "rate_limit"
      [] OTHER             -> "generic"

\* C1: generate_speech returns a path only for a 2xx response; any other
\* status and any network failure raise, a network failure as the
\* connectivity error.
C1_PathOnly2xx ==
    Posted =>
        /\ (result.ret = "path" => Http2xx)
        /\ (resp.kind \in NetworkFailures =>
                result.ret = "raise" /\ result.err.bucket = "network")

\* C2: a text longer than MAX_TEXT_LENGTH is answered with the length
\* rejection and never posted; a text of at most MAX_TEXT_LENGTH characters
\* is not rejected for length and is posted.
C2_LengthGate ==
    cur.kind = "text" =>
        IF cur.len > MAX_TEXT_LENGTH
        THEN /\ posts = 0
             /\ pc \in {"check", "idle"}
             /\ (pc = "idle" => reply.kind = "too_long")
        ELSE /\ reply.kind # "too_long"
             /\ (pc \in {"send", "except", "idle"} => posts = 1)

C2_Witness ==
    /\ cur.kind = "text"
    /\ cur.len = MAX_TEXT_LENGTH
    /\ pc = "idle"
    /\ posts = 1

\* C3: an HTTP error with a JSON body of any shape and no marker is
\* classified by its status code: 401, 403, 429, else the generic error
\* with the status code.
C3_ByStatusAnyShape ==
    (HttpError /\ resp.json.t # "text" /\ ~MarkedAnywhere(resp.json)) =>
        /\ result.err.bucket = BucketOf(resp.status)
        /\ (result.err.bucket = "generic" => result.err.code = resp.status)

\* C4 as stated: either marker in either of detail.status and detail.message
\* gives the account-restriction error, whatever the status code.
C4_MarkerAnywhere ==
    (HttpError /\ MarkedAnywhere(resp.json)) =>
        result.err.bucket = "account_restriction"

\* C4: "unusual_activity" in detail.status, or "free tier" in detail.message
\* beside a string or absent detail.status, in any letter case, gives the
\* account-restriction error, whatever the status code.
C4_MarkerInPlace ==
    (HttpError /\ MarkedInPlace(resp.json)) =>
        result.err.bucket = "account_restriction"

C4_Witness ==
    /\ HttpError
    /\ resp.status = 401
    /\ resp.json.t = "obj"
    /\ resp.json.detail.t = "obj"
    /\ resp.json.detail.status.t = "absent"
    /\ HasFreeTier(resp.json.detail.message)
    /\ result.err.bucket = "account_restriction"

\* C5: an HTTP error whose body is not JSON is classified by the status
\* code alone: 401, 403 and 429 get their own bucket, any other status the
\* generic error with the status code.
C5_FallbackByStatus ==
    (HttpError /\ resp.json.t = "text") =>
        /\ result.ret = "raise"
        /\ result.err.bucket = BucketOf(resp.status)
        /\ (result.err.bucket = "generic" => result.err.code = resp.status)

C5_Witness ==
    /\ HttpError
    /\ resp.json.t = "text"
    /\ resp.status = 429
    /\ result.err.bucket = "rate_limit"

\* C6: is_valid_api_key returns a boolean in every case, and true exactly
\* for an HTTP 200.
C6_ValidOnly200 ==
    (pc = "status" /\ resp # NoResp) =>
        /\ result.ret = "bool"
        /\ (result.valid <=> (resp.kind = "http" /\ resp.status = 200))

C6_Witness ==
    /\ pc = "status"
    /\ resp.kind = "http"
    /\ resp.status = 500
    /\ result.ret = "bool"
    /\ ~result.valid

\* C7: a button press with a key outside the registry leaves the user's
\* stored voice as it was and answers "voice not found"; a press with a
\* registry key stores that entry's provider voice id.
C7_VoiceCallback ==
    [][(pc = "idle" /\ pc' = "idle" /\ clock' = clock /\ cur'.kind = "callback") =>
        LET u == cur'.user
            voice_key == VoiceKeyOf(cur'.data)
        IN  IF Len(voice_key) = 1 /\ voice_key[1] \in VoiceKeys
            THEN user_data'[u].voice_id = AVAILABLE_VOICES[voice_key[1]].id
            ELSE /\ user_data'[u] = user_data[u]
                 /\ reply'.kind = "voice_not_found"]_vars

C7_Witness ==
    /\ pc = "idle"
    /\ cur.kind = "callback"
    /\ cur.data = <<"voice_", "zz">>
    /\ reply.kind = "voice_not_found"
    /\ user_data[cur.user].voice_id = AVAILABLE_VOICES["rachel"].id

\* C8 as stated: after a 2xx response the returned path names a file that
\* exists, is non-empty and holds the response body.
C8_NonEmptyRoundTrip ==
    (Http2xx /\ result.ret = "path") =>
        /\ files[result.path].exists
        /\ files[result.path].content # <<>>
        /\ files[result.path].content = resp.content

\* C8: after a 2xx response the returned path names a file that exists and
\* holds the response body; it is non-empty when the body is.
C8_RoundTrip ==
    (Http2xx /\ result.ret = "path") =>
        /\ files[result.path].exists
        /\ files[result.path].content = resp.content
        /\ (resp.content # <<>> => files[result.path].content # <<>>)

C8_Witness ==
    /\ Http2xx
    /\ result.ret = "path"
    /\ resp.content = <<255, 251>>
    /\ files[result.path].content = <<255, 251>>

\* C9: handling one text message makes at most one POST, whatever the
\* outcome, and POSTs are made for accepted text messages only.
C9_SinglePost ==
    /\ posts <= 1
    /\ (posts = 1 => cur.kind = "text" /\ cur.len <= MAX_TEXT_LENGTH)
    /\ (pc = "except" => posts = 1)

C9_Witness ==
    /\ pc = "idle"
    /\ posts = 1
    /\ reply.kind = "error"
    /\ reply.err.bucket = "network"

\* the messages generate_speech builds for the exceptions it raises
Classified ==
    {"account_restriction", "authorization", "forbidden", "rate_limit",
     "generic", "detail_only", "network", "unexpected"}

\* C10: every text message that reaches handle_text ends with the length
\* rejection, the audio, or an error message; what generate_speech raises
\* always carries one of its own messages.
C10_AlwaysReplies ==
    /\ (cur.kind = "text" /\ pc = "check")
          ~> (pc = "idle" /\ reply.kind \in {"too_long", "audio", "error"})
    /\ [](pc = "except" =>
            result.ret = "raise" /\ result.err.bucket \in Classified)
    /\ []((pc = "idle" /\ reply.kind = "error") =>
            reply.err.bucket \in Classified)

C10_Witness ==
    /\ pc = "idle"
    /\ cur.kind = "text"
    /\ reply.kind = "error"
    /\ reply.err.bucket = "unexpected"
    /\ reply.err.variant = "write_fails"

\* the speech client has been built for cur.user and has made its request
ClientUsed == Posted \/ (pc = "status" /\ resp # NoResp)

\* C11: the voice id the speech client is built with is always the provider
\* id of a registry entry: the user's stored voice, or the registry default
\* when none is stored.
C11_RegistryVoice ==
    ClientUsed =>
        /\ \E k \in VoiceKeys : result.voice = AVAILABLE_VOICES[k].id
        /\ result.voice = IF user_data[cur.user].voice_id = Unset
                          THEN AVAILABLE_VOICES["bella"].id
                          ELSE user_data[cur.user].voice_id

C11_Witness ==
    /\ Posted
    /\ user_data[cur.user].voice_id = AVAILABLE_VOICES["rachel"].id
    /\ result.voice = AVAILABLE_VOICES["rachel"].id
    /\ \E u \in Users : user_data[u].voice_id = Unset

\* this step changes the stored voice of a user who had one
VoiceChanges(u) ==
    /\ user_data[u].voice_id # Unset
    /\ user_data'[u].voice_id # user_data[u].voice_id

\* this step is u's button press with a registry key
SelectionBy(u) ==
    /\ pc = "idle"
    /\ cur'.kind = "callback"
    /\ cur'.user = u
    /\ Len(VoiceKeyOf(cur'.data)) = 1
    /\ VoiceKeyOf(cur'.data)[1] \in VoiceKeys

\* this step is u's /start, and leaves u with the default voice
StartBy(u) ==
    /\ pc = "idle"
    /\ cur'.kind = "start"
    /\ cur'.user = u
    /\ user_data'[u].voice_id = AVAILABLE_VOICES["bella"].id

\* C12 as stated: a stored voice is changed by the user's own voice
\* selection and by nothing else.
C12_OnlySelection ==
    [][\A u \in Users : VoiceChanges(u) => SelectionBy(u)]_vars

\* C12: a stored voice is changed only by the user's own voice selection
\* with a registry key, or by the user's own /start, which resets it to the
\* default voice; no other event, and no event of another user, changes it.
C12_SelectionOrStart ==
    [][\A u \in Users : VoiceChanges(u) => (SelectionBy(u) \/ StartBy(u))]_vars

C12_Witness ==
    /\ pc = "idle"
    /\ cur.kind = "text"
    /\ reply.kind = "audio"
    /\ \E u \in Users :
          /\ u # cur.user
          /\ user_data[u].voice_id = AVAILABLE_VOICES["rachel"].id

\* the number of files in the output directory
NumFiles(fs) == Cardinality({t \in DOMAIN fs : fs[t].exists})

\* this step is a generate_speech call that returns a path
SynthesisSucceeds == pc = "try" /\ pc' = "send"

\* C13: every successful synthesis adds one file to the output directory
\* and leaves the content of every file written before it as it was.
C13_WriteOnce ==
    [][SynthesisSucceeds =>
        /\ NumFiles(files') = NumFiles(files) + 1
        /\ \A t \in DOMAIN files : files[t].exists => files'[t] = files[t]]_vars

\* the display name of the registry entry with this provider id
NameOfId(voice_id) ==
    CASE voice_id = "EXAVITQu4vr4xnSDxMaL" -> "Bella"
      [] voice_id = "21m00Tcm4TlvDq8ikWAM" -> "Rachel"
      [] voice_id = "AZnzlk1XvdvUeBnXmlld" -> "Domi"
      [] voice_id = "MF3mGyEYCl7XYWbV9V6O" -> "Elli"
      [] voice_id = "ThT5KcBeYPX3keUQqHPh" -> "Dorothy"
      [] voice_id = "XB0fDUnXU5powFXDhCwa" -> "Charlotte"
      [] voice_id = "Xb7hH8MSUJpSbSDYk0k2" -> "Alice"
      [] OTHER                             -> "Unknown"

\* this step sends the audio reply
AudioSent == pc = "send" /\ pc' = "idle"

\* C14: the audio reply names in its caption the voice whose id was in the
\* URL of the POST made for this message, and carries the body of that
\* POST's response.
C14_CaptionMatchesPost ==
    [][AudioSent =>
        /\ reply'.kind = "audio"
        /\ reply'.voice = NameOfId(result.voice)
        /\ reply'.bytes = resp.content]_vars

C14_Witness ==
    /\ pc = "idle"
    /\ cur.kind = "text"
    /\ reply.kind = "audio"
    /\ reply.voice = "Rachel"
    /\ reply.bytes = <<255, 251>>
    /\ \E u \in Users :
          /\ u # cur.user
          /\ user_data[u].voice_id # user_data[cur.user].voice_id

====
